---- MODULE Spec2Model ----
(***************************************************************************)
(* Exact diagonalisation of the transverse-field Ising ring in momentum    *)
(* sectors (src/Example.ipynb).  The module models the bit utilities, the  *)
(* sector basis BuildBasisNk, the Hamiltonian action ActingH, the sparse   *)
(* sector matrix builder BuildHNk (one step per loop iteration) and the    *)
(* driver Task.                                                            *)
(*                                                                         *)
(* Complex matrix values are kept exactly.  Every value the code produces  *)
(* has the shape  (sum_j num[j] * w^j) * sqrt(Rn) / sqrt(Rm)  with         *)
(* w = exp(2*pi*i/L) and integer num[j]: it is stored as the record        *)
(* [num, Rn, Rm].  Equality of such values is decided in the cyclotomic    *)
(* ring Z[w] (reduction modulo the L-th cyclotomic polynomial).            *)
(***************************************************************************)
EXTENDS Integers, Sequences, FiniteSets, TLC

\* ------------------------------------------------------------------ bounds
MaxL == 4
MaxJ == 2
MaxG == 2

\* Inputs a caller of BuildHNk may pass: nothing in the code restricts them.
LInputs == (0 - 1)..MaxL
JInputs == (0 - 1)..MaxJ
GInputs == (0 - 1)..MaxG

\* ------------------------------------------------------- integer bit tools
\* 2 ** e and 1 << e, for the exponents e >= 0 the code reaches
RECURSIVE Pow2(_)
Pow2(e) == IF e <= 0 THEN 1 ELSE 2 * Pow2(e - 1)

ShiftL(x, s) == x * Pow2(s)

ShiftR(x, s) == x \div Pow2(s)

RECURSIVE BitAnd(_, _)
BitAnd(x, y) ==
  IF x = 0 \/ y = 0 THEN 0
  ELSE (x % 2) * (y % 2) + 2 * BitAnd(x \div 2, y \div 2)

RECURSIVE BitXor(_, _)
BitXor(x, y) ==
  IF x = 0 THEN y
  ELSE IF y = 0 THEN x
  ELSE (((x % 2) + (y % 2)) % 2) + 2 * BitXor(x \div 2, y \div 2)

\* ReadBit(i, n): (i & (1 << n)) >> n
ReadBit(i, n) == ShiftR(BitAnd(i, ShiftL(1, n)), n)

\* PickBit(i, k, n): (i & ((2 ** n - 1) << k)) >> k
PickBit(i, k, n) == ShiftR(BitAnd(i, ShiftL(Pow2(n) - 1, k)), k)

\* RotLBit(i, L, n): (PickBit(i, 0, L - n) << n) + (i >> (L - n))
RotLBit(i, LL, n) == ShiftL(PickBit(i, 0, LL - n), n) + ShiftR(i, LL - n)

\* ------------------------------------------------------------ list helpers
Range(s) == {s[i] : i \in DOMAIN s}

\* min(list)
SeqMin(s) == CHOOSE x \in Range(s) : \A y \in Range(s) : x <= y

\* list.index(x): 0-based position of the first occurrence
Index(s, x) ==
  CHOOSE i \in 0..(Len(s) - 1) :
    s[i + 1] = x /\ \A j \in 0..(i - 1) : s[j + 1] # x

\* [RotLBit(n, L, i) for i in range(0, L + 1)]
Tlist(n, LL) == [i \in 1..(LL + 1) |-> RotLBit(n, LL, i - 1)]

\* Tlist[1:].index(n) + 1
Period(n, LL) == Index(Tail(Tlist(n, LL)), n) + 1

\* m_rs = min(Tlist)
Representative(n, LL) == SeqMin(Tlist(n, LL))

\* d = Tlist.index(m_rs)
RotDistance_mut(m, LL) == LL - Index(Tlist(m, LL), SeqMin(Tlist(m, LL)))

RotDistance(m, LL) == Index(Tlist(m, LL), SeqMin(Tlist(m, LL)))

\* --------------------------------------------------------------- the basis
BuildBasisN(LL) == [i \in 1..Pow2(LL) |-> i - 1]

\* the test of BuildBasisNk: m == n and (k * R) % L == 0
InSector_mut(n, LL, kk) == Representative(n, LL) = n

InSector_noRep(n, LL, kk) == (kk * Period(n, LL)) % LL = 0

InSector(n, LL, kk) ==
  Representative(n, LL) = n /\ (kk * Period(n, LL)) % LL = 0

BuildBasisNk(LL, kk) ==
  SelectSeq(BuildBasisN(LL), LAMBDA n : InSector(n, LL, kk))

\* ------------------------------------------------------------ the Hamiltonian
RECURSIVE DiagSum_mut(_, _, _, _)
DiagSum_mut(n, LL, JJ, i) ==
  IF i >= LL - 1 THEN 0
  ELSE (IF ReadBit(n, i) = ReadBit(n, (i + 1) % LL) THEN 0 - JJ ELSE JJ)
       + DiagSum_mut(n, LL, JJ, i + 1)

RECURSIVE DiagSum(_, _, _, _)
\* the loop "for j in ising" with ising[i] = (i, (i + 1) % L), bonds i..L-1
DiagSum(n, LL, JJ, i) ==
  IF i >= LL THEN 0
  ELSE (IF ReadBit(n, i) = ReadBit(n, (i + 1) % LL) THEN 0 - JJ ELSE JJ)
       + DiagSum(n, LL, JJ, i + 1)

FlipAmplitude_mut(JJ, gg) == 0 - JJ

\* - J * g
FlipAmplitude(JJ, gg) == 0 - JJ * gg

ActingH(n, LL, JJ, gg) ==
  [i \in 1..LL |-> <<BitXor(n, ShiftL(1, i - 1)), FlipAmplitude(JJ, gg)>>]
    \o << <<n, DiagSum(n, LL, JJ, 0)>> >>

\* --------------------------------------------------------- complex values
ZeroVec(LL) == [j \in 0..(LL - 1) |-> 0]

CZero(LL) == [num |-> ZeroVec(LL), Rn |-> 1, Rm |-> 1]

ContribValue_mut(h, kk, d, LL, Rn, Rm) ==
  [num |-> [j \in 0..(LL - 1) |-> IF j = (kk * d) % LL THEN h ELSE 0],
   Rn |-> Rn, Rm |-> 1]

\* h * np.exp(1j * k * d * 2 * math.pi / L) * np.sqrt(Rn) / np.sqrt(Rm)
ContribValue(h, kk, d, LL, Rn, Rm) ==
  [num |-> [j \in 0..(LL - 1) |-> IF j = (kk * d) % LL THEN h ELSE 0],
   Rn |-> Rn, Rm |-> Rm]

\* v + w for two values with the same factor sqrt(Rn)/sqrt(Rm); a sum of
\* values with different factors has no exact form here and is marked Rn = 0
\* (TypeOK states that this never happens).
CAdd(v, w) ==
  IF v.Rn * w.Rm = w.Rn * v.Rm
  THEN [num |-> [j \in DOMAIN v.num |-> v.num[j] + w.num[j]],
        Rn |-> w.Rn, Rm |-> w.Rm]
  ELSE [num |-> v.num, Rn |-> 0, Rm |-> 0]

\* complex conjugate: w^j -> w^(L-j)
CConj(v) ==
  LET LL == Cardinality(DOMAIN v.num)
  IN  [v EXCEPT !.num = [j \in 0..(LL - 1) |-> v.num[(LL - j) % LL]]]

\* The L-th cyclotomic polynomial, coefficients from degree 0 upwards.
Cyclo(LL) ==
  CASE LL = 1 -> <<0 - 1, 1>>
    [] LL = 2 -> <<1, 1>>
    [] LL = 3 -> <<1, 1, 1>>
    [] LL = 4 -> <<1, 0, 1>>
    [] LL = 5 -> <<1, 1, 1, 1, 1>>
    [] LL = 6 -> <<1, 0 - 1, 1>>
    [] LL = 7 -> <<1, 1, 1, 1, 1, 1, 1>>
    [] LL = 8 -> <<1, 0, 0, 0, 1>>

RECURSIVE ReduceFrom(_, _, _)
\* remove the terms of degree t, t-1, ..., deg(Cyclo) of p using Cyclo(L) = 0
ReduceFrom(p, LL, t) ==
  LET phi == Cyclo(LL)
      deg == Len(phi) - 1
  IN  IF t < deg THEN p
      ELSE ReduceFrom(
             [j \in DOMAIN p |->
                IF j >= t - deg /\ j <= t
                THEN p[j] - p[t] * phi[j - (t - deg) + 1]
                ELSE p[j]],
             LL, t - 1)

\* sum_j p[j] * w^j = 0  in the complex numbers
VecIsZero(p) ==
  LET LL == Cardinality(DOMAIN p)
      r == ReduceFrom(p, LL, LL - 1)
  IN  \A j \in DOMAIN r : r[j] = 0

CIsZero(v) == VecIsZero(v.num)

IsSquare(x) == \E t \in 0..x : t * t = x

ISqrt(x) == CHOOSE t \in 0..x : t * t = x

\* v = w as complex numbers:  x*sqrt(p/q) = y*sqrt(r/s)  iff
\* x*sqrt(p*s*r*q) = y*r*q;  exact when p*s*r*q is a perfect square, which
\* is the case for every pair of values compared below.
CEq(v, w) ==
  \/ CIsZero(v) /\ CIsZero(w)
  \/ /\ IsSquare(v.Rn * w.Rm * w.Rn * v.Rm)
     /\ LET t == ISqrt(v.Rn * w.Rm * w.Rn * v.Rm)
        IN  VecIsZero([j \in DOMAIN v.num |->
                         v.num[j] * t - w.num[j] * w.Rn * v.Rm])

\* ------------------------------------------------------------------- state
VARIABLES
  caller,    \* "BuildHNk": BuildHNk called directly; "Task": called by Task
  L, k, J, g,
  pc,        \* "call", "for_n", "for_m", "returned", "raise", "assemble", "done"
  err,       \* the exception raised, "" when none
  basisCalled, \* BuildBasisNk has been entered
  basisNk, bi, \* the sector basis and the 1-based position of "for n"
  output, oi,  \* ActingH's result and the 1-based position of "for (m, h)"
  loc,       \* the locals n, b, m, h, m_rs, Rm, d, Rn, a of the loop body
  HNk_col, HNk_row, HNk_val, pos,
  ret,       \* BuildHNk's return tuple, <<>> before it returns
  count, Hx, Hy, Hn, \* Task's accumulators
  offs, dims, sec,   \* history: count before each sector, each C, sector of each triplet
  Ham        \* the dense matrix handed to the eigensolver

vars == <<caller, L, k, J, g, pc, err, basisCalled, basisNk, bi, output, oi,
          loc, HNk_col, HNk_row, HNk_val, pos, ret, count, Hx, Hy, Hn,
          offs, dims, sec, Ham>>

taskVars == <<count, Hx, Hy, Hn, offs, dims, sec, Ham>>

NoLoc == [n |-> 0, b |-> 0, m |-> 0, h |-> 0, m_rs |-> 0, Rm |-> 0, d |-> 0,
          Rn |-> 0, a |-> 0 - 1, set |-> FALSE]

EmptyPos == [x \in {} |-> 0]

InitCommon ==
  /\ pc = "call" /\ err = "" /\ basisCalled = FALSE
  /\ basisNk = <<>> /\ bi = 1 /\ output = <<>> /\ oi = 1 /\ loc = NoLoc
  /\ HNk_col = <<>> /\ HNk_row = <<>> /\ HNk_val = <<>> /\ pos = EmptyPos
  /\ ret = <<>>
  /\ count = 0 /\ Hx = <<>> /\ Hy = <<>> /\ Hn = <<>>
  /\ offs = <<>> /\ dims = <<>> /\ sec = <<>> /\ Ham = <<>>

\* BuildHNk(L, k, J, g) called with any arguments
Init ==
  /\ caller = "BuildHNk"
  /\ L \in LInputs
  /\ k \in (IF L >= 1 THEN 0..(L - 1) ELSE {0})
  /\ J \in JInputs
  /\ g \in GInputs
  /\ InitCommon

\* Task(L): J_list = [1], g_list = [1], k starts at 0
InitTask ==
  /\ caller = "Task"
  /\ L \in 1..MaxL
  /\ k = 0 /\ J = 1 /\ g = 1
  /\ InitCommon

\* ----------------------------------------------------------------- BuildHNk
\* lines 168-172: the empty lists and basisNk = BuildBasisNk(L, k).  For
\* L < 0, range(0, 2 ** L) raises TypeError in BuildBasisN; for L = 0,
\* Tlist[1:] is empty and .index(n) raises ValueError.
BuildHNkEnter ==
  /\ pc = "call"
  /\ basisCalled' = TRUE
  /\ HNk_col' = <<>> /\ HNk_row' = <<>> /\ HNk_val' = <<>> /\ pos' = EmptyPos
  /\ bi' = 1 /\ oi' = 1 /\ output' = <<>>
  /\ IF L < 0
     THEN pc' = "raise" /\ err' = "TypeError" /\ basisNk' = <<>>
     ELSE IF L = 0
     THEN pc' = "raise" /\ err' = "ValueError" /\ basisNk' = <<>>
     ELSE pc' = "for_n" /\ err' = "" /\ basisNk' = BuildBasisNk(L, k)
  /\ loc' = NoLoc
  /\ UNCHANGED <<caller, L, k, J, g, ret>>
  /\ UNCHANGED taskVars

\* lines 173-175: for n in basisNk: b = basisNk.index(n); output = ActingH(...)
LoopN ==
  /\ pc = "for_n"
  /\ bi <= Len(basisNk)
  /\ LET n == basisNk[bi]
     IN  /\ loc' = [loc EXCEPT !.n = n, !.b = Index(basisNk, n)]
         /\ output' = ActingH(n, L, J, g)
  /\ oi' = 1
  /\ pc' = "for_m"
  /\ UNCHANGED <<caller, L, k, J, g, err, basisCalled, basisNk, bi,
                 HNk_col, HNk_row, HNk_val, pos, ret>>
  /\ UNCHANGED taskVars

\* lines 177-184: the locals of one iteration of "for (m, h) in output"
BodyLocals ==
  LET m == output[oi][1]
      h == output[oi][2]
      m_rs == Representative(m, L)
  IN  [n |-> loc.n, b |-> loc.b, m |-> m, h |-> h, m_rs |-> m_rs,
       Rm |-> Period(m, L), d |-> RotDistance(m, L),
       Rn |-> Period(loc.n, L),
       a |-> IF m_rs \in Range(basisNk) THEN Index(basisNk, m_rs) ELSE loc.a,
       set |-> TRUE]

\* the end of one iteration: next (m, h), or next n after the last one
Advance ==
  IF oi < Len(output)
  THEN oi' = oi + 1 /\ pc' = "for_m" /\ bi' = bi
  ELSE oi' = oi /\ pc' = "for_n" /\ bi' = bi + 1

\* line 187 false: m_rs is not in basisNk, nothing is stored
ContribDrop ==
  /\ pc = "for_m"
  /\ LET l == BodyLocals
     IN  /\ ~(l.m_rs \in Range(basisNk))
         /\ loc' = l
  /\ Advance
  /\ UNCHANGED <<caller, L, k, J, g, err, basisCalled, basisNk, output,
                 HNk_col, HNk_row, HNk_val, pos, ret>>
  /\ UNCHANGED taskVars

\* lines 187-194: first contribution to (a, b): a new triplet
ContribCreate ==
  /\ pc = "for_m"
  /\ LET l == BodyLocals
     IN  /\ l.m_rs \in Range(basisNk)
         /\ <<l.a, l.b>> \notin DOMAIN pos
         /\ loc' = l
         /\ HNk_col' = Append(HNk_col, l.a)
         /\ HNk_row' = Append(HNk_row, l.b)
         /\ HNk_val' = Append(HNk_val, ContribValue(l.h, k, l.d, L, l.Rn, l.Rm))
         /\ pos' = pos @@ (<<l.a, l.b>> :> Len(HNk_col))
  /\ Advance
  /\ UNCHANGED <<caller, L, k, J, g, err, basisCalled, basisNk, output, ret>>
  /\ UNCHANGED taskVars

\* lines 195-196: a further contribution to (a, b) is added to the value
ContribAdd ==
  /\ pc = "for_m"
  /\ LET l == BodyLocals
     IN  /\ l.m_rs \in Range(basisNk)
         /\ <<l.a, l.b>> \in DOMAIN pos
         /\ loc' = l
         /\ HNk_val' = [HNk_val EXCEPT ![pos[<<l.a, l.b>>] + 1] =
                          CAdd(@, ContribValue(l.h, k, l.d, L, l.Rn, l.Rm))]
  /\ Advance
  /\ UNCHANGED <<caller, L, k, J, g, err, basisCalled, basisNk, output,
                 HNk_col, HNk_row, pos, ret>>
  /\ UNCHANGED taskVars

ReturnTuple_mut == <<HNk_row, HNk_col, HNk_val, Len(basisNk), basisNk>>

\* line 198: return HNk_col, HNk_row, HNk_val, len(basisNk), basisNk
ReturnTuple == <<HNk_col, HNk_row, HNk_val, Len(basisNk), basisNk>>

Return ==
  /\ pc = "for_n"
  /\ bi > Len(basisNk)
  /\ ret' = ReturnTuple
  /\ pc' = "returned"
  /\ UNCHANGED <<caller, L, k, J, g, err, basisCalled, basisNk, bi, output, oi,
                 loc, HNk_col, HNk_row, HNk_val, pos>>
  /\ UNCHANGED taskVars

Next == BuildHNkEnter \/ LoopN \/ ContribDrop \/ ContribCreate \/ ContribAdd \/ Return

Spec == Init /\ [][Next]_vars

\* -------------------------------------------------------------------- Task
Shift_mut(X, c) == X

\* [p + count for p in X]
Shift(X, c) == [i \in DOMAIN X |-> X[i] + c]

\* lines 222-226: unpack X, Y, N, C, basis; shift and append; count += C
TaskMerge ==
  /\ pc = "returned"
  /\ caller = "Task"
  /\ LET X == ret[1]
         Y == ret[2]
         N == ret[3]
         C == ret[4]
     IN  /\ Hx' = Hx \o Shift(X, count)
         /\ Hy' = Hy \o Shift(Y, count)
         /\ Hn' = Hn \o N
         /\ count' = count + C
         /\ offs' = Append(offs, count)
         /\ dims' = Append(dims, C)
         /\ sec' = sec \o [i \in DOMAIN X |-> k]
  /\ k' = k + 1
  /\ pc' = IF k + 1 < L THEN "call" ELSE "assemble"
  /\ UNCHANGED <<caller, L, J, g, err, basisCalled, basisNk, bi, output, oi, loc,
                 HNk_col, HNk_row, HNk_val, pos, ret, Ham>>

\* coo_matrix((vals, (rows, cols)), shape=(n, n)).toarray(): duplicates add up
RECURSIVE SumAt(_, _, _, _, _, _)
SumAt(rows, cols, vals, r, c, i) ==
  IF i > Len(rows) THEN <<>>
  ELSE LET rest == SumAt(rows, cols, vals, r, c, i + 1)
       IN  IF rows[i] = r /\ cols[i] = c
           THEN (IF rest = <<>> THEN <<vals[i]>> ELSE <<CAdd(vals[i], rest[1])>>)
           ELSE rest

Dense(rows, cols, vals, n, LL) ==
  [r \in 0..(n - 1) |->
     [c \in 0..(n - 1) |->
        LET s == SumAt(rows, cols, vals, r, c, 1)
        IN  IF s = <<>> THEN CZero(LL) ELSE s[1]]]

\* lines 228-229: Ham = coo_matrix((Hn, (Hx, Hy)), shape=(count, count)); eig
TaskEig ==
  /\ pc = "assemble"
  /\ Ham' = Dense(Hx, Hy, Hn, count, L)
  /\ pc' = "done"
  /\ UNCHANGED <<caller, L, k, J, g, err, basisCalled, basisNk, bi, output, oi,
                 loc, HNk_col, HNk_row, HNk_val, pos, ret,
                 count, Hx, Hy, Hn, offs, dims, sec>>

NextTask ==
  \/ BuildHNkEnter \/ LoopN \/ ContribDrop \/ ContribCreate \/ ContribAdd
  \/ Return \/ TaskMerge \/ TaskEig

SpecTask == InitTask /\ [][NextTask]_vars

\* ---------------------------------------------------------------- typing
ValOK(v) == v.Rn >= 1 /\ v.Rm >= 1

TypeOK ==
  /\ pc \in {"call", "for_n", "for_m", "returned", "raise", "assemble", "done"}
  /\ \A i \in DOMAIN HNk_val : ValOK(HNk_val[i])
  /\ Len(HNk_col) = Len(HNk_row) /\ Len(HNk_row) = Len(HNk_val)
  /\ Len(Hx) = Len(Hy) /\ Len(Hy) = Len(Hn) /\ Len(Hn) = Len(sec)

\* ------------------------------------------------- the eigenvalue problem
\* LA.eig is an external solver; its eigenvalues are the roots of the
\* characteristic polynomial det(Ham - x*I), which is computed exactly here.
CMul(v, w) ==
  LET LL == Cardinality(DOMAIN v.num)
      Conv[j \in 0..(LL - 1), i \in 0..LL] ==
        IF i = LL THEN 0
        ELSE v.num[i] * w.num[(j - i + LL) % LL] + Conv[j, i + 1]
  IN  [num |-> [j \in 0..(LL - 1) |-> Conv[j, 0]],
       Rn |-> v.Rn * w.Rn, Rm |-> v.Rm * w.Rm]

CInt(x, LL) == [num |-> [j \in 0..(LL - 1) |-> IF j = 0 THEN x ELSE 0],
                Rn |-> 1, Rm |-> 1]

\* parity of a permutation of 0..n-1: +1 or -1
Sign(p, n) ==
  LET inv == Cardinality({q \in (0..(n - 1)) \X (0..(n - 1)) :
                            q[1] < q[2] /\ p[q[1]] > p[q[2]]})
  IN  IF inv % 2 = 0 THEN 1 ELSE 0 - 1

\* Ham - x*I
Shifted(M, n, x, LL) ==
  [r \in 0..(n - 1) |->
     [c \in 0..(n - 1) |->
        IF r = c THEN CAdd(M[r][c], CInt(0 - x, LL)) ELSE M[r][c]]]

RECURSIVE ProdAlong(_, _, _, _, _)
\* the product of M[r][p[r]] for r = i..n-1
ProdAlong(M, p, n, i, LL) ==
  IF i >= n THEN CInt(1, LL)
  ELSE CMul(M[i][p[i]], ProdAlong(M, p, n, i + 1, LL))

RECURSIVE SumTerms(_, _, _, _)
\* the Leibniz sum over a set of permutations; a product is a number of
\* Z[w] when its square-root factors cancel (Rn = Rm) or it is zero
SumTerms(M, n, ps, LL) ==
  IF ps = {} THEN [vec |-> ZeroVec(LL), exact |-> TRUE]
  ELSE LET p == CHOOSE q \in ps : TRUE
           t == ProdAlong(M, p, n, 0, LL)
           rest == SumTerms(M, n, ps \ {p}, LL)
           s == Sign(p, n)
       IN  IF CIsZero(t) THEN rest
           ELSE [vec |-> [j \in 0..(LL - 1) |-> rest.vec[j] + s * t.num[j]],
                 exact |-> rest.exact /\ t.Rn = t.Rm]

\* det(M - x*I) for the n x n matrix M
CharPolyAt(M, n, x, LL) ==
  SumTerms(Shifted(M, n, x, LL), n, Permutations(0..(n - 1)), LL)

\* det(M - x*I) is the integer y
CharPolyIs(M, n, x, LL, y) ==
  LET cp == CharPolyAt(M, n, x, LL)
  IN  cp.exact /\ VecIsZero([j \in 0..(LL - 1) |->
                               cp.vec[j] - (IF j = 0 THEN y ELSE 0)])

\* ================================================================ claims
RECURSIVE SumSeq(_)
SumSeq(s) == IF s = <<>> THEN 0 ELSE Head(s) + SumSeq(Tail(s))

SectorDims(LL) == [j \in 1..LL |-> Len(BuildBasisNk(LL, j - 1))]

States(LL) == 0..(Pow2(LL) - 1)

\* the minimum of n's first L rotations, and n's rotation orbit
MinRot(n, LL) ==
  CHOOSE x \in {RotLBit(n, LL, i) : i \in 0..(LL - 1)} :
    \A i \in 0..(LL - 1) : x <= RotLBit(n, LL, i)

Orbit(n, LL) == {RotLBit(n, LL, i) : i \in 0..(LL - 1)}

\* the set of states listed by BuildBasisNk(L, k), for every k in [0, L)
SectorSets(LL) == [kk \in 0..(LL - 1) |-> Range(BuildBasisNk(LL, kk))]

\* the states listed in some sector basis
Listed(B) == UNION {B[kk] : kk \in DOMAIN B}

SectorsOf(B, r) == {kk \in DOMAIN B : r \in B[kk]}

\* the sector basis has just been built by BuildBasisNk
BasisBuilt == pc = "for_n" /\ bi = 1 /\ L >= 1

\* C1: for every L >= 1 the sizes of BuildBasisNk(L, k), summed over all k
\* in [0, L), equal 2^L.
C1_BasisSizesSumToPow2 ==
  BasisBuilt =>
    /\ basisNk = BuildBasisNk(L, k)
    /\ SumSeq(SectorDims(L)) = Pow2(L)

C1_Witness ==
  /\ BasisBuilt /\ L >= 3 /\ k >= 1
  /\ Len(basisNk) >= 1
  /\ Len(basisNk) < Len(BuildBasisNk(L, 0))

OneSectorEach(B, LL) ==
  \A n \in States(LL) :
    /\ Cardinality(SectorsOf(B, MinRot(n, LL))) = 1
    /\ Cardinality({r \in Listed(B) : n \in Orbit(r, LL)}) = 1

\* C2 (as claimed): the representative of every n is listed in the basis of
\* exactly one sector k, and n is a rotation image of exactly one listed
\* representative.
C2_OneSectorPerRepresentative ==
  BasisBuilt => (basisNk = BuildBasisNk(L, k) /\ OneSectorEach(SectorSets(L), L))

PeriodManyEach(B, LL) ==
  \A n \in States(LL) :
    /\ SectorsOf(B, MinRot(n, LL))
         = {kk \in 0..(LL - 1) : (kk * Cardinality(Orbit(n, LL))) % LL = 0}
    /\ Cardinality(SectorsOf(B, MinRot(n, LL))) = Cardinality(Orbit(n, LL))
    /\ 0 \in SectorsOf(B, MinRot(n, LL))
    /\ {r \in Listed(B) : n \in Orbit(r, LL)} = {MinRot(n, LL)}

\* C2 (amended): the representative of every n is listed in the basis of
\* exactly R(n) sectors, the k with (k * R(n)) mod L = 0 (k = 0 among them),
\* R(n) being n's period; and n is a rotation image of exactly one listed
\* representative, so the rotation orbits partition the state space.
C2_PeriodManySectors ==
  BasisBuilt => (basisNk = BuildBasisNk(L, k) /\ PeriodManyEach(SectorSets(L), L))

C2_Witness ==
  /\ BasisBuilt /\ L >= 3 /\ k >= 1
  /\ basisNk = BuildBasisNk(L, k)
  /\ \E n \in States(L) :
       /\ MinRot(n, L) # n
       /\ MinRot(n, L) \in Range(basisNk)
       /\ MinRot(n, L) \in Range(BuildBasisNk(L, 0))

\* the matrix assembled from BuildHNk's return value the way Task does it
ReturnedMatrix == Dense(ret[1], ret[2], ret[3], ret[4], L)

\* C3: for L >= 1, k in [0, L), J > 0, g > 0 the matrix assembled from the
\* triplets BuildHNk returns is Hermitian: H[a][b] = conj(H[b][a]).
C3_Hermitian ==
  (pc = "returned" /\ L >= 1 /\ J > 0 /\ g > 0) =>
    \A a \in 0..(ret[4] - 1) : \A b \in 0..(ret[4] - 1) :
      CEq(ReturnedMatrix[a][b], CConj(ReturnedMatrix[b][a]))

\* a sector with a non-real off-diagonal entry
C3_Witness ==
  /\ pc = "returned" /\ L >= 1 /\ J > 0 /\ g > 0 /\ k >= 1
  /\ \E i \in DOMAIN ret[1] :
       /\ ret[1][i] # ret[2][i]
       /\ ~CIsZero(ret[3][i])
       /\ ~CEq(ret[3][i], CConj(ret[3][i]))

CharPoints == (0 - 3)..3

\* C4 (as claimed): for L = 2, J = g = 1 the sector dimensions sum to 4 and
\* the eigenvalues of Task's matrix are {-2, 0, 0, 2}: its characteristic
\* polynomial is (x + 2) * x * x * (x - 2).
C4_EigenvaluesAsClaimed ==
  (pc = "done" /\ L = 2) =>
    /\ count = 4 /\ SumSeq(dims) = 4
    /\ \A x \in CharPoints :
         CharPolyIs(Ham, count, x, L, (x + 2) * x * x * (x - 2))

\* C4 (amended): for L = 2, J = g = 1 the sector dimensions (3 and 1) sum to
\* 4 and the eigenvalues of Task's matrix are {-2*sqrt(2), -2, 2, 2*sqrt(2)}:
\* its characteristic polynomial is (x^2 - 8) * (x^2 - 4).
C4_EigenvaluesOfCode ==
  (pc = "done" /\ L = 2) =>
    /\ count = 4 /\ SumSeq(dims) = 4
    /\ dims = <<Len(BuildBasisNk(2, 0)), Len(BuildBasisNk(2, 1))>>
    /\ \A x \in CharPoints :
         CharPolyIs(Ham, count, x, L, (x * x - 8) * (x * x - 4))

C4_Witness ==
  /\ pc = "done" /\ L = 2 /\ J = 1 /\ g = 1
  /\ dims = <<3, 1>>
  /\ CharPolyIs(Ham, count, 2, L, 0)
  /\ ~CharPolyIs(Ham, count, 0, L, 0)

\* one iteration of "for (m, h)" has just run for the locals in loc
AfterContribution ==
  /\ loc.set
  /\ \/ pc = "for_m" /\ oi > 1
     \/ pc = "for_n"
     \/ pc = "returned"

Found == loc.m_rs \in Range(basisNk)

\* C5 (as claimed): BuildHNk returns (row indices, column indices, values,
\* dimension, basis) and a contribution from basis index b to the target
\* representative's index a has b in the first list and a in the second.
C5_RowFirst ==
  (AfterContribution /\ Found) =>
    LET a == Index(basisNk, loc.m_rs)
        b == Index(basisNk, loc.n)
    IN  /\ <<a, b>> \in DOMAIN pos
        /\ ReturnTuple[1][pos[<<a, b>>] + 1] = b
        /\ ReturnTuple[2][pos[<<a, b>>] + 1] = a

\* C5 (amended): BuildHNk returns (HNk_col, HNk_row, values, dimension,
\* basis); a contribution from basis index b to the target representative's
\* index a has a in the first list and b in the second, at the slot pos[(a, b)].
C5_ColFirst ==
  /\ (AfterContribution /\ Found) =>
       LET a == Index(basisNk, loc.m_rs)
           b == Index(basisNk, loc.n)
       IN  /\ <<a, b>> \in DOMAIN pos
           /\ ReturnTuple[1][pos[<<a, b>>] + 1] = a
           /\ ReturnTuple[2][pos[<<a, b>>] + 1] = b
  /\ \A key \in DOMAIN pos :
       /\ ReturnTuple[1][pos[key] + 1] = key[1]
       /\ ReturnTuple[2][pos[key] + 1] = key[2]
  /\ pc = "returned" =>
       /\ ret = ReturnTuple
       /\ Len(ret[1]) = Len(ret[3]) /\ Len(ret[2]) = Len(ret[3])
       /\ ret[4] = Len(basisNk) /\ ret[5] = basisNk

C5_Witness ==
  /\ pc = "returned"
  /\ \E key \in DOMAIN pos :
       /\ key[1] # key[2]
       /\ ret[1][pos[key] + 1] = key[1]
       /\ ret[2][pos[key] + 1] = key[2]

\* C6 (as claimed): the rotation distance d used in the phase factor is the
\* number of left rotations taking m_rs to m: RotLBit(m_rs, L, d) = m.
C6_DistanceFromRepresentative ==
  AfterContribution => RotLBit(loc.m_rs, L, loc.d) = loc.m

\* C6 (amended): the rotation distance d used in the phase factor is the
\* number of left rotations taking m to m_rs: RotLBit(m, L, d) = m_rs, and
\* d is the smallest such number.
C6_DistanceToRepresentative ==
  AfterContribution =>
    /\ loc.m_rs = MinRot(loc.m, L)
    /\ loc.d \in 0..(L - 1)
    /\ RotLBit(loc.m, L, loc.d) = loc.m_rs
    /\ \A e \in 0..(loc.d - 1) : RotLBit(loc.m, L, e) # loc.m_rs
    /\ (Found /\ loc.h # 0) =>
         HNk_val[pos[<<loc.a, loc.b>>] + 1].num[(k * loc.d) % L] # 0

C6_Witness ==
  /\ AfterContribution /\ Found /\ k >= 1 /\ loc.h # 0
  /\ loc.d >= 2
  /\ RotLBit(loc.m_rs, L, loc.d) # loc.m

BadInput == L <= 0 \/ J < 0 \/ g < 0

\* C7: a computation invoked with L <= 0 or with negative J or g fails with
\* a configuration error before any sector basis is constructed.
C7_ConfigurationErrorFirst ==
  (BadInput /\ pc # "call") =>
    /\ pc = "raise"
    /\ err = "ConfigurationError"
    /\ ~basisCalled

\* C8: for g = 0, L >= 1, J >= 0 every triplet BuildHNk returns whose two
\* indices differ has value 0.
C8_DiagonalAtZeroField ==
  (pc = "returned" /\ g = 0 /\ J >= 0 /\ L >= 1) =>
    \A i \in DOMAIN ret[3] :
      ret[1][i] # ret[2][i] => CIsZero(ret[3][i])

C8_Witness ==
  /\ pc = "returned" /\ g = 0 /\ J > 0 /\ L >= 2
  /\ \E i \in DOMAIN ret[3] : ret[1][i] # ret[2][i] /\ CIsZero(ret[3][i])
  /\ \E i \in DOMAIN ret[3] : ret[1][i] = ret[2][i] /\ ~CIsZero(ret[3][i])

\* C9: in Task the offset before sector k is the sum of the dimensions of
\* sectors 0..k-1, every triplet of sector k has both shifted indices in
\* [offset_k, offset_k + dimension_k), and the final offset is 2^L.
C9_BlockDiagonal ==
  /\ \A j \in DOMAIN offs :
       /\ offs[j] = SumSeq(SubSeq(dims, 1, j - 1))
       /\ dims[j] = Len(BuildBasisNk(L, j - 1))
  /\ Len(offs) = Len(dims)
  /\ count = SumSeq(dims)
  /\ pc \in {"call", "for_n", "for_m", "returned"} => Len(dims) = k
  /\ \A i \in DOMAIN Hx :
       LET j == sec[i] + 1
       IN  /\ offs[j] <= Hx[i] /\ Hx[i] < offs[j] + dims[j]
           /\ offs[j] <= Hy[i] /\ Hy[i] < offs[j] + dims[j]
  /\ pc \in {"assemble", "done"} => (k = L /\ count = Pow2(L))

C9_Witness ==
  /\ pc = "done" /\ L >= 3 /\ count = Pow2(L)
  /\ \E i \in DOMAIN Hx : sec[i] >= 1 /\ Hx[i] # Hy[i] /\ offs[sec[i] + 1] > 0

\* C10: a contribution to target m is dropped (no triplet created or
\* changed, no error) exactly when (k * Rm) mod L # 0 for m's period Rm;
\* otherwise m's representative is in the sector basis and the contribution
\* is accumulated at an index pair inside [0, dimension).
C10_DroppedExactlyByRule ==
  [][ pc = "for_m" =>
        LET m == output[oi][1]
            h == output[oi][2]
            n == basisNk[bi]
            periods == {r \in 1..L : RotLBit(m, L, r) = m}
            Rm == CHOOSE r \in periods : \A q \in periods : r <= q
            m_rs == MinRot(m, L)
        IN  IF (k * Rm) % L # 0
            THEN /\ UNCHANGED <<HNk_col, HNk_row, HNk_val, pos>>
                 /\ pc' # "raise" /\ err' = ""
            ELSE /\ m_rs \in Range(basisNk)
                 /\ LET a == Index(basisNk, m_rs)
                        b == Index(basisNk, n)
                        v == ContribValue(h, k, loc'.d, L, loc'.Rn, loc'.Rm)
                    IN  /\ a \in 0..(Len(basisNk) - 1)
                        /\ b \in 0..(Len(basisNk) - 1)
                        /\ <<a, b>> \in DOMAIN pos'
                        /\ HNk_col'[pos'[<<a, b>>] + 1] = a
                        /\ HNk_row'[pos'[<<a, b>>] + 1] = b
                        /\ IF <<a, b>> \in DOMAIN pos
                           THEN HNk_val'[pos'[<<a, b>>] + 1]
                                  = CAdd(HNk_val[pos[<<a, b>>] + 1], v)
                           ELSE /\ HNk_val' = Append(HNk_val, v)
                                /\ pos'[<<a, b>>] = Len(HNk_val)
                 /\ pc' # "raise" /\ err' = "" ]_vars

C10_Witness ==
  /\ AfterContribution /\ ~Found
  /\ (k * loc.Rm) % L # 0
  /\ Len(HNk_col) >= 2
====
